---- MODULE Spec2Model ----
(***************************************************************************)
(* VAX action history: the nonce deriver (gi), the chain hasher (SAI), the *)
(* chain-state cursor and the verifier vax_verify_action.                  *)
(*                                                                         *)
(* SHA-256 and HMAC-SHA256 are modelled as free constructors: a digest is  *)
(* the tagged tuple of what was hashed, so two digests are equal exactly   *)
(* when their inputs are equal (the collision-freedom the design assumes). *)
(* A 32-byte buffer that holds no digest is <<"raw", bytes>>.              *)
(***************************************************************************)
EXTENDS Integers, Sequences, FiniteSets, TLC

VARIABLES chain, genesis, log, syncs, ret, vin, vres
VARIABLES vfrom, gcalls, srv, accepted, rlast, app, guarded, obs

\* the calls of vax_compute_gi made so far
givars == <<gcalls>>

\* the relying party: its expected cursor, what it accepted, its last answer
rpvars == <<srv, accepted, rlast>>

\* an append in flight, the caller's discipline, what a reader last saw
ccvars == <<app, guarded, obs>>

vars == <<chain, genesis, log, syncs, ret, vin, vres, vfrom, givars, rpvars, ccvars>>

(***************************************************************************)
(* Program constants                                                       *)
(***************************************************************************)
VAX_SAI_SIZE == 32
VAX_GI_SIZE == 32
VAX_K_CHAIN_SIZE == 32
VAX_GENESIS_SALT_SIZE == 16
UINT16_MAX == 65535

VAX_OK == "VAX_OK"
VAX_ERR_INVALID_COUNTER == "VAX_ERR_INVALID_COUNTER"
VAX_ERR_INVALID_PREV_SAI == "VAX_ERR_INVALID_PREV_SAI"
VAX_ERR_INVALID_CANONICALIZATION == "VAX_ERR_INVALID_CANONICALIZATION"
VAX_ERR_SAI_MISMATCH == "VAX_ERR_SAI_MISMATCH"
VAX_ERR_INVALID_INPUT == "VAX_ERR_INVALID_INPUT"
VAX_ERR_COUNTER_OVERFLOW == "VAX_ERR_COUNTER_OVERFLOW"

(***************************************************************************)
(* Bounds of the model                                                     *)
(***************************************************************************)
\* longest payload, in characters
MaxLen == 2
\* counters are sampled in 0..CounterWindow and UINT16_MAX-CounterWindow..UINT16_MAX
CounterWindow == 2
\* most successful appends on one chain
MaxAppends == 3
\* most sync calls on one chain
MaxSyncs == 1

(***************************************************************************)
(* Byte buffers                                                            *)
(***************************************************************************)
\* a NULL pointer
NULL == <<>>

\* memset(buf, b, n)
Fill(b, n) == [i \in 1..n |-> b]

\* memcmp(a, b, n) != 0
memcmp(a, b) == IF a = b THEN 0 ELSE 1

(***************************************************************************)
(* Library primitives                                                      *)
(***************************************************************************)
SHA256(msg) == <<"sha", msg>>

HMAC_SHA256(key, msg) == <<"hmac", key, msg>>

(***************************************************************************)
(* gi.c                                                                    *)
(***************************************************************************)
\* the message with the two counter bytes swapped (low byte first)
gi_message_le(counter) ==
    <<86, 65, 88, 45, 71, 73>> \o <<counter % 256, (counter \div 256) % 256>>

\* the message with the low byte of the counter only (65535 and 255 agree)
gi_message_low(counter) ==
    <<86, 65, 88, 45, 71, 73>> \o <<0, counter % 256>>

\* "VAX-GI" || counter, the counter as big-endian uint16
gi_message(counter) ==
    <<86, 65, 88, 45, 71, 73>> \o <<(counter \div 256) % 256, counter % 256>>

\* a deriver with hidden state: the number of calls made so far enters the
\* message
vax_compute_gi_stateful(k_chain, counter, out_gi) ==
    IF k_chain = NULL \/ out_gi = NULL
    THEN [result |-> VAX_ERR_INVALID_INPUT, out_gi |-> out_gi]
    ELSE [result |-> VAX_OK,
          out_gi |-> HMAC_SHA256(k_chain, gi_message(counter) \o <<Len(gcalls)>>)]

\* out_gi is the caller's buffer (NULL or any buffer); the result carries
\* the return code and the buffer as the call leaves it
vax_compute_gi(k_chain, counter, out_gi) ==
    IF k_chain = NULL \/ out_gi = NULL
    THEN [result |-> VAX_ERR_INVALID_INPUT, out_gi |-> out_gi]
    ELSE LET digest == HMAC_SHA256(k_chain, gi_message(counter))
             out_len == 32
         IN  IF out_len # VAX_GI_SIZE
             THEN [result |-> VAX_ERR_INVALID_INPUT, out_gi |-> digest]
             ELSE [result |-> VAX_OK, out_gi |-> digest]

(***************************************************************************)
(* Canonical form of a payload (the external collaborator): a payload is   *)
(* a string over Chars, the blank is insignificant whitespace, and the     *)
(* canonical form of a document is the document without its blanks.        *)
(***************************************************************************)
Chars == {"a", " "}

Strings == UNION {[1..n -> Chars] : n \in 0..MaxLen}

RECURSIVE StripBlanks(_)
StripBlanks(s) ==
    IF s = <<>> THEN <<>>
    ELSE IF Head(s) = " " THEN StripBlanks(Tail(s))
    ELSE <<Head(s)>> \o StripBlanks(Tail(s))

\* input that is no document at all: nothing but blanks
IsDocument(s) == StripBlanks(s) # <<>>

vax_is_canonical(sae) == IsDocument(sae) /\ StripBlanks(sae) = sae

vax_canonicalize_json(input) ==
    IF IsDocument(input)
    THEN [result |-> VAX_OK, out_sae |-> StripBlanks(input)]
    ELSE [result |-> VAX_ERR_INVALID_CANONICALIZATION, out_sae |-> NULL]

strlen(s) == Len(s)

(***************************************************************************)
(* Chain hasher and genesis deriver                                        *)
(***************************************************************************)
\* SAI_n = SHA256("VAX-SAI" || prev_sai || SHA256(sae) || gi)
vax_compute_sai(prev_sai, sae, sae_len, gi) ==
    IF prev_sai = NULL \/ sae = NULL \/ gi = NULL
    THEN [result |-> VAX_ERR_INVALID_INPUT, out_sai |-> NULL]
    ELSE [result |-> VAX_OK,
          out_sai |-> SHA256(<<"VAX-SAI", prev_sai,
                               SHA256(SubSeq(sae, 1, sae_len)), gi>>)]

\* SAI_0 = SHA256("VAX-GENESIS" || actor_id || genesis_salt)
vax_compute_genesis_sai(actor_id, genesis_salt) ==
    IF actor_id = NULL \/ genesis_salt = NULL
    THEN [result |-> VAX_ERR_INVALID_INPUT, out_sai |-> NULL]
    ELSE [result |-> VAX_OK,
          out_sai |-> SHA256(<<"VAX-GENESIS", actor_id, genesis_salt>>)]

(***************************************************************************)
(* verify.c                                                                *)
(***************************************************************************)
\* an uninitialised local buffer the callee fills
Buffer == <<"raw", <<>>>>

\* step 1 as "not behind": any counter above the expected one passes
vax_verify_action_gap(k_chain, expected_counter, expected_prev_sai, counter, prev_sai, sae, sai) ==
    IF counter < expected_counter + 1
    THEN VAX_ERR_INVALID_COUNTER
    ELSE IF memcmp(prev_sai, expected_prev_sai) # 0
    THEN VAX_ERR_INVALID_PREV_SAI
    ELSE IF ~vax_is_canonical(sae)
    THEN VAX_ERR_INVALID_CANONICALIZATION
    ELSE LET g == vax_compute_gi(k_chain, counter, Buffer) IN
         IF g.result # VAX_OK THEN g.result
         ELSE LET s == vax_compute_sai(prev_sai, sae, strlen(sae), g.out_gi) IN
              IF s.result # VAX_OK THEN s.result
              ELSE IF memcmp(sai, s.out_sai) # 0 THEN VAX_ERR_SAI_MISMATCH
              ELSE VAX_OK

\* the counter comparison done in 16 bits: expected_counter + 1 wraps to 0
vax_verify_action_wrap(k_chain, expected_counter, expected_prev_sai, counter, prev_sai, sae, sai) ==
    IF counter # (expected_counter + 1) % (UINT16_MAX + 1)
    THEN VAX_ERR_INVALID_COUNTER
    ELSE IF memcmp(prev_sai, expected_prev_sai) # 0
    THEN VAX_ERR_INVALID_PREV_SAI
    ELSE IF ~vax_is_canonical(sae)
    THEN VAX_ERR_INVALID_CANONICALIZATION
    ELSE LET g == vax_compute_gi(k_chain, counter, Buffer) IN
         IF g.result # VAX_OK THEN g.result
         ELSE LET s == vax_compute_sai(prev_sai, sae, strlen(sae), g.out_gi) IN
              IF s.result # VAX_OK THEN s.result
              ELSE IF memcmp(sai, s.out_sai) # 0 THEN VAX_ERR_SAI_MISMATCH
              ELSE VAX_OK

\* step 2 left out: the submitted prevSAI is never compared
vax_verify_action_noprev(k_chain, expected_counter, expected_prev_sai, counter, prev_sai, sae, sai) ==
    IF counter # expected_counter + 1
    THEN VAX_ERR_INVALID_COUNTER
    ELSE IF ~vax_is_canonical(sae)
    THEN VAX_ERR_INVALID_CANONICALIZATION
    ELSE LET g == vax_compute_gi(k_chain, counter, Buffer) IN
         IF g.result # VAX_OK THEN g.result
         ELSE LET s == vax_compute_sai(prev_sai, sae, strlen(sae), g.out_gi) IN
              IF s.result # VAX_OK THEN s.result
              ELSE IF memcmp(sai, s.out_sai) # 0 THEN VAX_ERR_SAI_MISMATCH
              ELSE VAX_OK

\* step 3 left out: the payload is hashed without the canonical-form check
vax_verify_action_nocanon(k_chain, expected_counter, expected_prev_sai, counter, prev_sai, sae, sai) ==
    IF counter # expected_counter + 1
    THEN VAX_ERR_INVALID_COUNTER
    ELSE IF memcmp(prev_sai, expected_prev_sai) # 0
    THEN VAX_ERR_INVALID_PREV_SAI
    ELSE LET g == vax_compute_gi(k_chain, counter, Buffer) IN
         IF g.result # VAX_OK THEN g.result
         ELSE LET s == vax_compute_sai(prev_sai, sae, strlen(sae), g.out_gi) IN
              IF s.result # VAX_OK THEN s.result
              ELSE IF memcmp(sai, s.out_sai) # 0 THEN VAX_ERR_SAI_MISMATCH
              ELSE VAX_OK

\* the anchor is recomputed from the expected counter, not the submitted one
vax_verify_action_stalegi(k_chain, expected_counter, expected_prev_sai, counter, prev_sai, sae, sai) ==
    IF counter # expected_counter + 1
    THEN VAX_ERR_INVALID_COUNTER
    ELSE IF memcmp(prev_sai, expected_prev_sai) # 0
    THEN VAX_ERR_INVALID_PREV_SAI
    ELSE IF ~vax_is_canonical(sae)
    THEN VAX_ERR_INVALID_CANONICALIZATION
    ELSE LET g == vax_compute_gi(k_chain, expected_counter, Buffer) IN
         IF g.result # VAX_OK THEN g.result
         ELSE LET s == vax_compute_sai(prev_sai, sae, strlen(sae), g.out_gi) IN
              IF s.result # VAX_OK THEN s.result
              ELSE IF memcmp(sai, s.out_sai) # 0 THEN VAX_ERR_SAI_MISMATCH
              ELSE VAX_OK

\* the final comparison left out: any anchor is accepted
vax_verify_action_nocmp(k_chain, expected_counter, expected_prev_sai, counter, prev_sai, sae, sai) ==
    IF counter # expected_counter + 1
    THEN VAX_ERR_INVALID_COUNTER
    ELSE IF memcmp(prev_sai, expected_prev_sai) # 0
    THEN VAX_ERR_INVALID_PREV_SAI
    ELSE IF ~vax_is_canonical(sae)
    THEN VAX_ERR_INVALID_CANONICALIZATION
    ELSE LET g == vax_compute_gi(k_chain, counter, Buffer) IN
         IF g.result # VAX_OK THEN g.result
         ELSE LET s == vax_compute_sai(prev_sai, sae, strlen(sae), g.out_gi) IN
              IF s.result # VAX_OK THEN s.result
              ELSE VAX_OK

\* expected_counter + 1 is computed in int (the uint16 operand is promoted),
\* so it is 65536, equal to no uint16 counter, when expected_counter is 65535
vax_verify_action(k_chain, expected_counter, expected_prev_sai, counter, prev_sai, sae, sai) ==
    IF counter # expected_counter + 1
    THEN VAX_ERR_INVALID_COUNTER
    ELSE IF memcmp(prev_sai, expected_prev_sai) # 0
    THEN VAX_ERR_INVALID_PREV_SAI
    ELSE IF ~vax_is_canonical(sae)
    THEN VAX_ERR_INVALID_CANONICALIZATION
    ELSE LET g == vax_compute_gi(k_chain, counter, Buffer) IN
         IF g.result # VAX_OK THEN g.result
         ELSE LET s == vax_compute_sai(prev_sai, sae, strlen(sae), g.out_gi) IN
              IF s.result # VAX_OK THEN s.result
              ELSE IF memcmp(sai, s.out_sai) # 0 THEN VAX_ERR_SAI_MISMATCH
              ELSE VAX_OK

(***************************************************************************)
(* Chain state (the cursor behind the opaque vax_chain_t handle)           *)
(***************************************************************************)
\* the NULL handle
NoChain == [actor_id |-> NULL, k_chain |-> NULL, counter |-> 0, prev_sai |-> NULL]

vax_chain_new(actor_id, k_chain, genesis_salt) ==
    IF actor_id = NULL \/ k_chain = NULL \/ genesis_salt = NULL
    THEN NoChain
    ELSE LET g == vax_compute_genesis_sai(actor_id, genesis_salt) IN
         IF g.result # VAX_OK THEN NoChain
         ELSE [actor_id |-> actor_id, k_chain |-> k_chain,
               counter |-> 0, prev_sai |-> g.out_sai]

vax_chain_get_counter(c) == c.counter

vax_chain_get_prev_sai(c) == c.prev_sai

\* what a call that changed nothing returns
AppendFailed(c, code) ==
    [result |-> code, chain |-> c, sae |-> NULL, out_sai |-> NULL]

\* the counter is incremented in 16 bits without the guard: 65535 wraps to 0
vax_chain_append_wrap(c, json) ==
    LET cj == vax_canonicalize_json(json) IN
    IF cj.result # VAX_OK THEN AppendFailed(c, cj.result)
    ELSE LET n == (c.counter + 1) % (UINT16_MAX + 1)
             g == vax_compute_gi(c.k_chain, n, Buffer) IN
         IF g.result # VAX_OK THEN AppendFailed(c, g.result)
         ELSE LET s == vax_compute_sai(c.prev_sai, cj.out_sae, strlen(cj.out_sae), g.out_gi) IN
              IF s.result # VAX_OK THEN AppendFailed(c, s.result)
              ELSE [result |-> VAX_OK,
                    chain |-> [c EXCEPT !.counter = n, !.prev_sai = s.out_sai],
                    sae |-> cj.out_sae, out_sai |-> s.out_sai]

\* the counter is advanced before the payload is found not to be a document
vax_chain_append_early(c, json) ==
    IF c.counter = UINT16_MAX THEN AppendFailed(c, VAX_ERR_COUNTER_OVERFLOW)
    ELSE LET cj == vax_canonicalize_json(json) IN
         IF cj.result # VAX_OK
         THEN AppendFailed([c EXCEPT !.counter = c.counter + 1], cj.result)
         ELSE LET g == vax_compute_gi(c.k_chain, c.counter + 1, Buffer) IN
              IF g.result # VAX_OK THEN AppendFailed(c, g.result)
              ELSE LET s == vax_compute_sai(c.prev_sai, cj.out_sae, strlen(cj.out_sae), g.out_gi) IN
                   IF s.result # VAX_OK THEN AppendFailed(c, s.result)
                   ELSE [result |-> VAX_OK,
                         chain |-> [c EXCEPT !.counter = c.counter + 1,
                                             !.prev_sai = s.out_sai],
                         sae |-> cj.out_sae, out_sai |-> s.out_sai]

\* 1. canonicalize the input, 2. derive gi for counter + 1, 3. compute the
\* SAI from the current anchor, 4. counter++ and prevSAI = new SAI together
vax_chain_append(c, json) ==
    IF c.counter = UINT16_MAX THEN AppendFailed(c, VAX_ERR_COUNTER_OVERFLOW)
    ELSE LET cj == vax_canonicalize_json(json) IN
         IF cj.result # VAX_OK THEN AppendFailed(c, cj.result)
         ELSE LET g == vax_compute_gi(c.k_chain, c.counter + 1, Buffer) IN
              IF g.result # VAX_OK THEN AppendFailed(c, g.result)
              ELSE LET s == vax_compute_sai(c.prev_sai, cj.out_sae, strlen(cj.out_sae), g.out_gi) IN
                   IF s.result # VAX_OK THEN AppendFailed(c, s.result)
                   ELSE [result |-> VAX_OK,
                         chain |-> [c EXCEPT !.counter = c.counter + 1,
                                             !.prev_sai = s.out_sai],
                         sae |-> cj.out_sae, out_sai |-> s.out_sai]

\* a sync that only moves forward: a counter below the current one is ignored
vax_chain_sync_forward(c, counter, prev_sai) ==
    IF counter < c.counter THEN c
    ELSE [c EXCEPT !.counter = counter, !.prev_sai = prev_sai]

vax_chain_sync(c, counter, prev_sai) ==
    [c EXCEPT !.counter = counter, !.prev_sai = prev_sai]

(***************************************************************************)
(* Inputs                                                                  *)
(***************************************************************************)
\* the secret of the actor's session
SessionKeys == {Fill(66, VAX_K_CHAIN_SIZE)}

Keys == SessionKeys \cup {Fill(0, VAX_K_CHAIN_SIZE)}

\* uint16 counters: the low end, the byte boundary and the high end
Counters ==
    (0..CounterWindow) \cup {255, 256} \cup ((UINT16_MAX - CounterWindow)..UINT16_MAX)

Payloads == Strings \ {<<>>}

Actors == {<<"u", ":", "d">>, NULL}

Salts == {Fill(205, VAX_GENESIS_SALT_SIZE)}

\* two buffers that differ in their last byte only
RawA == <<"raw", Fill(170, VAX_SAI_SIZE)>>

RawB == <<"raw", [Fill(170, VAX_SAI_SIZE) EXCEPT ![VAX_SAI_SIZE] = 171]>>

GenesisAnchors ==
    {vax_compute_genesis_sai(a, s).out_sai : a \in Actors \ {NULL}, s \in Salts}

Anchors == {RawA, RawB} \cup GenesisAnchors

\* cursors an authoritative source may hand to vax_chain_sync: the start, the
\* last counter that can still be appended to, and the limit
SyncCounters == {0, UINT16_MAX - 1, UINT16_MAX}

SyncAnchors == {RawA} \cup GenesisAnchors

\* the anchor an honest client computes for (k, c, prev, p)
ClientSai(k, c, prev, p) ==
    vax_compute_sai(prev, p, strlen(p), vax_compute_gi(k, c, Buffer).out_gi).out_sai

\* anchors a submission may claim: junk, the honest one, and honest ones for
\* another key, for the expected counter or for another payload
ClaimedAnchors(k, ec, c, prev, p) ==
    {RawA} \cup {ClientSai(k2, c2, prev, p2) :
                    k2 \in Keys, c2 \in {c, ec}, p2 \in {p, <<"a">>}}

NoInput ==
    [k_chain |-> NULL, expected_counter |-> 0, expected_prev_sai |-> NULL,
     counter |-> 0, prev_sai |-> NULL, sae |-> NULL, sai |-> NULL]

NoRet == [op |-> "none", result |-> VAX_OK, value |-> NULL]

\* a submission taken as it came, not derived from a verified one
NoOrigin == [kind |-> "none", from |-> NoInput]

NoCursor == [start |-> 0, expected_counter |-> 0, expected_prev_sai |-> NULL]

NoSubmission ==
    [counter |-> 0, prev_sai |-> NULL, sae |-> NULL, sai |-> NULL,
     result |-> "none", replay |-> FALSE]

Idle == [pc |-> "idle"]

NoObs == [op |-> "none", value |-> NULL, torn |-> FALSE]

GiIdle == gcalls = <<>>

RPIdle == srv = NoCursor /\ accepted = <<>> /\ rlast = NoSubmission

ConcIdle == app = Idle /\ guarded = TRUE /\ obs = NoObs

(***************************************************************************)
(* The verifier applied to one submission                                  *)
(***************************************************************************)
VInit ==
    /\ chain = NoChain
    /\ genesis = NULL
    /\ log = <<>>
    /\ syncs = 0
    /\ ret = NoRet
    /\ \E k \in Keys \cup {NULL}, ec \in Counters, ea \in Anchors, c \in Counters,
          pa \in Anchors, p \in Payloads :
          \E a \in ClaimedAnchors(k, ec, c, pa, p) :
             vin = [k_chain |-> k, expected_counter |-> ec,
                    expected_prev_sai |-> ea, counter |-> c,
                    prev_sai |-> pa, sae |-> p, sai |-> a]
    /\ vres = "pending"
    /\ vfrom = NoOrigin
    /\ GiIdle /\ RPIdle /\ ConcIdle

VerifyAction ==
    /\ vres = "pending"
    /\ vres' = vax_verify_action(vin.k_chain, vin.expected_counter,
                                 vin.expected_prev_sai, vin.counter,
                                 vin.prev_sai, vin.sae, vin.sai)
    /\ UNCHANGED <<chain, genesis, log, syncs, ret, vin, vfrom, givars, rpvars, ccvars>>

\* the payload of a verified submission is replaced, all else kept
Tamper(p) ==
    /\ vres = VAX_OK
    /\ vfrom = NoOrigin
    /\ p # vin.sae
    /\ vin' = [vin EXCEPT !.sae = p]
    /\ vres' = "pending"
    /\ vfrom' = [kind |-> "tamper", from |-> vin]
    /\ UNCHANGED <<chain, genesis, log, syncs, ret, givars, rpvars, ccvars>>

\* a verified submission is presented again as position m, against the
\* expected cursor (m - 1, same previous anchor)
Reslot(m) ==
    /\ vres = VAX_OK
    /\ vfrom = NoOrigin
    /\ m # vin.counter
    /\ m >= 1
    /\ vin' = [vin EXCEPT !.counter = m, !.expected_counter = m - 1]
    /\ vres' = "pending"
    /\ vfrom' = [kind |-> "reslot", from |-> vin]
    /\ UNCHANGED <<chain, genesis, log, syncs, ret, givars, rpvars, ccvars>>

VNext ==
    \/ VerifyAction
    \/ \E p \in Payloads : Tamper(p)
    \/ \E m \in Counters : Reslot(m)

SpecVerify == VInit /\ [][VNext]_vars

(***************************************************************************)
(* The chain-state cursor: one actor's session                             *)
(*   chain    the state behind the handle (NoChain before vax_chain_new)   *)
(*   genesis  the anchor read from the chain right after its creation      *)
(*   log      the submissions (counter, prev_sai, sae, sai) the successful *)
(*            appends produced, in order                                   *)
(*   syncs    how many times vax_chain_sync was called                     *)
(*   ret      what the last call returned                                  *)
(***************************************************************************)
Init ==
    /\ chain = NoChain
    /\ genesis = NULL
    /\ log = <<>>
    /\ syncs = 0
    /\ ret = NoRet
    /\ vin = NoInput
    /\ vres = "pending"
    /\ vfrom = NoOrigin
    /\ GiIdle /\ RPIdle /\ ConcIdle

ChainNew(actor_id, k_chain, genesis_salt) ==
    /\ chain = NoChain
    /\ chain' = vax_chain_new(actor_id, k_chain, genesis_salt)
    /\ genesis' = vax_chain_get_prev_sai(chain')
    /\ ret' = [op |-> "new",
               result |-> IF chain' = NoChain THEN "NULL" ELSE VAX_OK,
               value |-> NULL]
    /\ UNCHANGED <<log, syncs, vin, vres, vfrom, givars, rpvars, ccvars>>

ChainAppend(json) ==
    /\ chain # NoChain
    /\ Len(log) < MaxAppends
    /\ LET r == vax_chain_append(chain, json) IN
       /\ chain' = r.chain
       /\ ret' = [op |-> "append", result |-> r.result, value |-> r.out_sai]
       /\ log' = IF r.result = VAX_OK
                 THEN Append(log, [counter |-> vax_chain_get_counter(r.chain),
                                   prev_sai |-> vax_chain_get_prev_sai(chain),
                                   sae |-> r.sae,
                                   sai |-> r.out_sai])
                 ELSE log
    /\ UNCHANGED <<genesis, syncs, vin, vres, vfrom, givars, rpvars, ccvars>>

ChainSync(counter, prev_sai) ==
    /\ chain # NoChain
    /\ syncs < MaxSyncs
    /\ chain' = vax_chain_sync(chain, counter, prev_sai)
    /\ syncs' = syncs + 1
    /\ ret' = [op |-> "sync", result |-> VAX_OK, value |-> NULL]
    /\ UNCHANGED <<genesis, log, vin, vres, vfrom, givars, rpvars, ccvars>>

ChainGetCounter ==
    /\ chain # NoChain
    /\ ret' = [op |-> "get_counter", result |-> VAX_OK,
               value |-> vax_chain_get_counter(chain)]
    /\ UNCHANGED <<chain, genesis, log, syncs, vin, vres, vfrom, givars, rpvars, ccvars>>

ChainGetPrevSai ==
    /\ chain # NoChain
    /\ ret' = [op |-> "get_prev_sai", result |-> VAX_OK,
               value |-> vax_chain_get_prev_sai(chain)]
    /\ UNCHANGED <<chain, genesis, log, syncs, vin, vres, vfrom, givars, rpvars, ccvars>>

Next ==
    \/ \E a \in Actors, k \in SessionKeys \cup {NULL}, s \in Salts : ChainNew(a, k, s)
    \/ \E j \in Payloads : ChainAppend(j)
    \/ \E c \in SyncCounters, a \in SyncAnchors : ChainSync(c, a)
    \/ ChainGetCounter
    \/ ChainGetPrevSai

Spec == Init /\ [][Next]_vars

(***************************************************************************)
(* The derivation functions called directly, as the unit tests do          *)
(*   gcalls   the calls made so far: function, arguments, return code and  *)
(*            output buffer                                                *)
(***************************************************************************)
\* the tests compare two calls
MaxCalls == 2

\* a secret buffer of half the size the deriver reads
ShortKey == Fill(66, VAX_K_CHAIN_SIZE \div 2)

\* what may lie in memory behind a short buffer
Beyond == {Fill(0, VAX_K_CHAIN_SIZE), Fill(255, VAX_K_CHAIN_SIZE)}

\* the VAX_K_CHAIN_SIZE bytes HMAC() reads at k_chain
ReadKey(k_chain, beyond) ==
    IF Len(k_chain) >= VAX_K_CHAIN_SIZE THEN SubSeq(k_chain, 1, VAX_K_CHAIN_SIZE)
    ELSE k_chain \o SubSeq(beyond, 1, VAX_K_CHAIN_SIZE - Len(k_chain))

\* vax_compute_gi on the caller's buffers. Behind a non-NULL buffer shorter
\* than VAX_K_CHAIN_SIZE the read runs out of bounds: it yields whatever
\* lies there, or the process faults.
GiOutcomes(k_chain, counter, out_gi) ==
    IF k_chain # NULL /\ out_gi # NULL /\ Len(k_chain) < VAX_K_CHAIN_SIZE
    THEN {vax_compute_gi(ReadKey(k_chain, b), counter, out_gi) : b \in Beyond}
         \cup {[result |-> "SIGSEGV", out_gi |-> out_gi]}
    ELSE {vax_compute_gi(k_chain, counter, out_gi)}

GiKeys == Keys \cup {NULL, ShortKey}

SaiPayloads == {<<"a">>, <<"a", "a">>, NULL}

SaiNonces == {vax_compute_gi(k, 1, Buffer).out_gi : k \in SessionKeys} \cup {NULL}

DInit ==
    /\ chain = NoChain
    /\ genesis = NULL
    /\ log = <<>>
    /\ syncs = 0
    /\ ret = NoRet
    /\ vin = NoInput
    /\ vres = "pending"
    /\ vfrom = NoOrigin
    /\ GiIdle /\ RPIdle /\ ConcIdle

ComputeGi(k_chain, counter, out_gi) ==
    /\ Len(gcalls) < MaxCalls
    /\ \E r \in GiOutcomes(k_chain, counter, out_gi) :
          gcalls' = Append(gcalls, [fn |-> "gi", args |-> <<k_chain, counter, out_gi>>,
                                    result |-> r.result, out |-> r.out_gi])
    /\ UNCHANGED <<chain, genesis, log, syncs, ret, vin, vres, vfrom, rpvars, ccvars>>

ComputeSai(prev_sai, sae, gi) ==
    /\ Len(gcalls) < MaxCalls
    /\ LET r == vax_compute_sai(prev_sai, sae, strlen(sae), gi) IN
          gcalls' = Append(gcalls, [fn |-> "sai", args |-> <<prev_sai, sae, gi>>,
                                    result |-> r.result, out |-> r.out_sai])
    /\ UNCHANGED <<chain, genesis, log, syncs, ret, vin, vres, vfrom, rpvars, ccvars>>

ComputeGenesisSai(actor_id, genesis_salt) ==
    /\ Len(gcalls) < MaxCalls
    /\ LET r == vax_compute_genesis_sai(actor_id, genesis_salt) IN
          gcalls' = Append(gcalls, [fn |-> "genesis", args |-> <<actor_id, genesis_salt>>,
                                    result |-> r.result, out |-> r.out_sai])
    /\ UNCHANGED <<chain, genesis, log, syncs, ret, vin, vres, vfrom, rpvars, ccvars>>

DNext ==
    \/ \E k \in GiKeys, c \in Counters, o \in {NULL, Buffer} : ComputeGi(k, c, o)
    \/ \E a \in {RawA, NULL}, p \in SaiPayloads, g \in SaiNonces : ComputeSai(a, p, g)
    \/ \E a \in Actors, s \in Salts \cup {NULL} : ComputeGenesisSai(a, s)

SpecDerive == DInit /\ [][DNext]_vars

(***************************************************************************)
(* Readers and an appender of one chain as separate processes. The core    *)
(* has no lock: an append computes the new anchor and then stores the two  *)
(* fields one after the other, in an order the build is free to choose.    *)
(*   app      the append in flight (Idle when none)                        *)
(*   guarded  whether the caller keeps reads out of an append in progress  *)
(*   obs      what the last read returned, and whether the chain was       *)
(*            half-updated when it was made                                *)
(***************************************************************************)
\* reads are always let through
ReadUnguarded == TRUE

\* the caller's discipline: no read while an append is in progress
ReadAllowed == guarded => app = Idle

\* one of Counter and CurrentAnchor is that of the append in flight, the
\* other still the old one
Torn ==
    /\ app # Idle
    /\ (chain.counter # app.old.counter) # (chain.prev_sai # app.old.prev_sai)

ConcInit ==
    /\ \E a \in Actors \ {NULL}, k \in SessionKeys, s \in Salts :
          chain = vax_chain_new(a, k, s)
    /\ genesis = vax_chain_get_prev_sai(chain)
    /\ log = <<>>
    /\ syncs = 0
    /\ ret = NoRet
    /\ vin = NoInput
    /\ vres = "pending"
    /\ vfrom = NoOrigin
    /\ GiIdle /\ RPIdle
    /\ app = Idle
    /\ guarded \in BOOLEAN
    /\ obs = NoObs

\* steps 1 - 3 of vax_chain_append: canonicalize, derive gi, compute the SAI
AppendBegin(json) ==
    /\ app = Idle
    /\ Len(log) < MaxAppends
    /\ LET r == vax_chain_append(chain, json) IN
       IF r.result # VAX_OK
       THEN /\ ret' = [op |-> "append", result |-> r.result, value |-> r.out_sai]
            /\ UNCHANGED app
       ELSE /\ app' = [pc |-> "update", old |-> chain, new |-> r.chain,
                       sae |-> r.sae, out_sai |-> r.out_sai,
                       todo |-> {"counter", "prev_sai"}]
            /\ UNCHANGED ret
    /\ UNCHANGED <<chain, genesis, log, syncs, vin, vres, vfrom, givars, rpvars, guarded, obs>>

\* step 4: one of the two stores; the call returns after the second
AppendStore(field) ==
    /\ app # Idle
    /\ field \in app.todo
    /\ chain' = [chain EXCEPT ![field] = app.new[field]]
    /\ IF app.todo = {field}
       THEN /\ app' = Idle
            /\ ret' = [op |-> "append", result |-> VAX_OK, value |-> app.out_sai]
            /\ log' = Append(log, [counter |-> app.new.counter,
                                   prev_sai |-> app.old.prev_sai,
                                   sae |-> app.sae,
                                   sai |-> app.out_sai])
       ELSE /\ app' = [app EXCEPT !.todo = @ \ {field}]
            /\ UNCHANGED <<ret, log>>
    /\ UNCHANGED <<genesis, syncs, vin, vres, vfrom, givars, rpvars, guarded, obs>>

ReadCounter ==
    /\ ReadAllowed
    /\ obs' = [op |-> "get_counter", value |-> vax_chain_get_counter(chain),
               torn |-> Torn]
    /\ UNCHANGED <<chain, genesis, log, syncs, ret, vin, vres, vfrom, givars, rpvars, app, guarded>>

ReadPrevSai ==
    /\ ReadAllowed
    /\ obs' = [op |-> "get_prev_sai", value |-> vax_chain_get_prev_sai(chain),
               torn |-> Torn]
    /\ UNCHANGED <<chain, genesis, log, syncs, ret, vin, vres, vfrom, givars, rpvars, app, guarded>>

ConcNext ==
    \/ \E j \in Payloads : AppendBegin(j)
    \/ \E f \in {"counter", "prev_sai"} : AppendStore(f)
    \/ ReadCounter
    \/ ReadPrevSai

SpecConc == ConcInit /\ [][ConcNext]_vars

(***************************************************************************)
(* A relying party: it verifies each submission against its expected       *)
(* cursor and commits (counter, anchor) as the new cursor after each Ok    *)
(*   srv       the expected cursor, and the counter it started from        *)
(*   accepted  the submissions that verified Ok, in order                  *)
(*   rlast     the last submission, the answer, and whether the submission *)
(*             had been accepted before                                    *)
(***************************************************************************)
MaxAccepted == 3

RPStarts == {0, UINT16_MAX - CounterWindow}

RPPayloads == {<<"a">>, <<"a", "a">>}

\* what a client holding the secret can build for the current cursor: the
\* next action, one that skips a counter, and counter 0, each on the
\* expected anchor or on a foreign one
Submissions(k_chain) ==
    {[counter |-> c, prev_sai |-> pa, sae |-> p, sai |-> ClientSai(k_chain, c, pa, p)] :
        c \in {0, srv.expected_counter + 1, srv.expected_counter + 2} \cap (0..UINT16_MAX),
        pa \in {srv.expected_prev_sai, RawA},
        p \in RPPayloads}

RPInit ==
    /\ chain = NoChain
    /\ genesis = NULL
    /\ log = <<>>
    /\ syncs = 0
    /\ ret = NoRet
    /\ vin = NoInput
    /\ vres = "pending"
    /\ vfrom = NoOrigin
    /\ GiIdle /\ ConcIdle
    /\ \E s \in RPStarts, a \in GenesisAnchors :
          srv = [start |-> s, expected_counter |-> s, expected_prev_sai |-> a]
    /\ accepted = <<>>
    /\ rlast = NoSubmission

\* verify, and commit the cursor on Ok
RPVerify(k_chain, sub) ==
    LET result == vax_verify_action(k_chain, srv.expected_counter, srv.expected_prev_sai,
                                    sub.counter, sub.prev_sai, sub.sae, sub.sai)
    IN  /\ rlast' = [counter |-> sub.counter, prev_sai |-> sub.prev_sai,
                     sae |-> sub.sae, sai |-> sub.sai, result |-> result,
                     replay |-> \E i \in DOMAIN accepted : accepted[i] = sub]
        /\ srv' = IF result = VAX_OK
                  THEN [srv EXCEPT !.expected_counter = sub.counter,
                                   !.expected_prev_sai = sub.sai]
                  ELSE srv
        /\ accepted' = IF result = VAX_OK THEN Append(accepted, sub) ELSE accepted
        /\ UNCHANGED <<chain, genesis, log, syncs, ret, vin, vres, vfrom, givars, ccvars>>

RPSubmit(k_chain, sub) ==
    /\ Len(accepted) < MaxAccepted
    /\ RPVerify(k_chain, sub)

\* a submission accepted earlier is presented again
RPReplay(k_chain, i) ==
    /\ i \in DOMAIN accepted
    /\ RPVerify(k_chain, accepted[i])

RPNext ==
    \/ \E k \in SessionKeys : \E sub \in Submissions(k) : RPSubmit(k, sub)
    \/ \E k \in SessionKeys, i \in 1..MaxAccepted : RPReplay(k, i)

SpecRP == RPInit /\ [][RPNext]_vars

(***************************************************************************)
(* Properties of vax_verify_action (checked under SpecVerify)              *)
(***************************************************************************)
Verified == vres # "pending"

SequencingPasses == vin.counter = vin.expected_counter + 1

ContinuityPasses == vin.prev_sai = vin.expected_prev_sai

\* next_anchor(submitted_prev_anchor, payload, derive_nonce(secret, submitted_counter))
Recomputed == ClientSai(vin.k_chain, vin.counter, vin.prev_sai, vin.sae)

\* C1: completeness. For a real secret, an expected cursor (c, A) with
\* c < 65535 and a canonical payload p, the submission (c + 1, A, p,
\* next_anchor(A, p, derive_nonce(k, c + 1))) verifies Ok.
C1_Completeness ==
    (/\ Verified
     /\ vin.k_chain # NULL
     /\ vin.expected_counter < UINT16_MAX
     /\ SequencingPasses
     /\ ContinuityPasses
     /\ vax_is_canonical(vin.sae)
     /\ vin.sai = Recomputed)
    => vres = VAX_OK

\* an honest submission accepted at the byte boundary of the counter
C1_Witness ==
    /\ vres = VAX_OK
    /\ vin.expected_counter = 255
    /\ vin.counter = 256
    /\ vin.sai = Recomputed

\* C2: sequencing. With expected_counter < 65535, every submitted counter
\* other than expected_counter + 1 is answered InvalidCounter, whatever the
\* other inputs are.
C2_Sequencing ==
    (/\ Verified
     /\ vin.expected_counter < UINT16_MAX
     /\ vin.counter # vin.expected_counter + 1)
    => vres = VAX_ERR_INVALID_COUNTER

\* counter N + 2 against expected N, everything else in order
C2_Witness ==
    /\ vres = VAX_ERR_INVALID_COUNTER
    /\ vin.counter = vin.expected_counter + 2
    /\ vin.k_chain # NULL
    /\ ContinuityPasses
    /\ vax_is_canonical(vin.sae)
    /\ vin.sai = Recomputed

\* C3: overflow guard. With expected_counter = 65535 the verifier answers
\* CounterOverflow for every submission.
C3_OverflowGuard ==
    (Verified /\ vin.expected_counter = UINT16_MAX)
    => vres = VAX_ERR_COUNTER_OVERFLOW

\* C4: continuity. When the counter checks pass and the submitted prev anchor
\* differs from the expected one, the verifier answers InvalidPrevAnchor,
\* whatever the payload and the claimed anchor are.
C4_Continuity ==
    (/\ Verified
     /\ vin.expected_counter # UINT16_MAX
     /\ SequencingPasses
     /\ ~ContinuityPasses)
    => vres = VAX_ERR_INVALID_PREV_SAI

\* the two anchors differ in their last byte only; payload not canonical
C4_Witness ==
    /\ vres = VAX_ERR_INVALID_PREV_SAI
    /\ vin.expected_prev_sai = RawA
    /\ vin.prev_sai = RawB
    /\ ~vax_is_canonical(vin.sae)

\* C5: canonicalization. When the counter and prev-anchor checks pass and the
\* payload is not canonical, the verifier answers InvalidCanonicalization,
\* even when the claimed anchor is the one recomputed over that payload.
C5_Canonicalization ==
    (/\ Verified
     /\ SequencingPasses
     /\ ContinuityPasses
     /\ ~vax_is_canonical(vin.sae))
    => vres = VAX_ERR_INVALID_CANONICALIZATION

\* a payload with a blank in it, its claimed anchor computed over it
C5_Witness ==
    /\ vres = VAX_ERR_INVALID_CANONICALIZATION
    /\ vin.k_chain # NULL
    /\ IsDocument(vin.sae)
    /\ vin.sai = Recomputed

\* C6: equality. When the counter, continuity and canonical-form checks pass
\* (with a real secret) and the claimed anchor is not the recomputed one, the
\* verifier answers AnchorMismatch, never Ok.
C6_Equality ==
    (/\ Verified
     /\ vin.k_chain # NULL
     /\ SequencingPasses
     /\ ContinuityPasses
     /\ vax_is_canonical(vin.sae)
     /\ vin.sai # Recomputed)
    => vres = VAX_ERR_SAI_MISMATCH

\* the claimed anchor is an honest one, but under another secret
C6_Witness ==
    /\ vres = VAX_ERR_SAI_MISMATCH
    /\ \E k2 \in Keys \ {vin.k_chain} :
          vin.sai = ClientSai(k2, vin.counter, vin.prev_sai, vin.sae)

\* the first check a submission fails, in the order overflow guard,
\* sequencing, continuity, canonicalization, anchor equality
FirstFailure ==
    IF vin.expected_counter = UINT16_MAX THEN VAX_ERR_COUNTER_OVERFLOW
    ELSE IF ~SequencingPasses THEN VAX_ERR_INVALID_COUNTER
    ELSE IF ~ContinuityPasses THEN VAX_ERR_INVALID_PREV_SAI
    ELSE IF ~vax_is_canonical(vin.sae) THEN VAX_ERR_INVALID_CANONICALIZATION
    ELSE IF vin.sai # Recomputed THEN VAX_ERR_SAI_MISMATCH
    ELSE VAX_OK

\* how many of the five checks the submission fails
FailedChecks ==
    Cardinality({i \in 1..5 :
        \/ i = 1 /\ vin.expected_counter = UINT16_MAX
        \/ i = 2 /\ ~SequencingPasses
        \/ i = 3 /\ ~ContinuityPasses
        \/ i = 4 /\ ~vax_is_canonical(vin.sae)
        \/ i = 5 /\ vin.sai # Recomputed})

\* C7: check ordering. A submission that fails several checks at once is
\* answered with the error of the earliest failing check in the order
\* overflow guard, sequencing, continuity, canonicalization, anchor equality.
C7_CheckOrdering ==
    (Verified /\ vin.k_chain # NULL /\ FailedChecks >= 2)
    => vres = FirstFailure

(***************************************************************************)
(* Properties of the chain state (checked under Spec)                      *)
(***************************************************************************)
\* the anchor after i appends on a chain that was never synced
AnchorAfter(i) == IF i = 0 THEN genesis ELSE log[i].sai

\* the verifier's answer to action i presented against (i - 1, anchor i - 1)
PresentInOrder(i) ==
    vax_verify_action(chain.k_chain, i - 1, AnchorAfter(i - 1),
                      i, AnchorAfter(i - 1), log[i].sae, AnchorAfter(i))

\* C8: chain continuity end to end. On a chain made by new and extended by
\* appends only, every action i (counter i, prev anchor = anchor after i - 1
\* appends, payload i, anchor after i appends) verifies Ok against the cursor
\* (i - 1, anchor after i - 1 appends); action 2 with its prev anchor replaced
\* by the genesis anchor is answered InvalidPrevAnchor.
C8_ChainContinuity ==
    syncs = 0 =>
      /\ \A i \in 1..Len(log) :
            /\ log[i].counter = i
            /\ log[i].prev_sai = AnchorAfter(i - 1)
            /\ PresentInOrder(i) = VAX_OK
      /\ Len(log) >= 2 =>
            vax_verify_action(chain.k_chain, 1, AnchorAfter(1),
                              2, genesis, log[2].sae, AnchorAfter(2))
              = VAX_ERR_INVALID_PREV_SAI

\* a never-synced chain right after its third successful append, the first
\* two payloads different
C8_Witness ==
    /\ syncs = 0
    /\ Len(log) = 3
    /\ chain.counter = 3
    /\ log[1].sae # log[2].sae
    /\ ret.op = "append"
    /\ ret.result = VAX_OK

\* C9: counter progression. new sets Counter = 0; an append that succeeds
\* adds exactly 1 to Counter and one that fails leaves it as it was; after n
\* successful appends on a never-synced chain get_counter returns n.
C9_CounterProgression ==
    /\ [](ret.op = "new" /\ chain # NoChain => vax_chain_get_counter(chain) = 0)
    /\ [](ret.op = "get_counter" /\ syncs = 0 => ret.value = Len(log))
    /\ [][ret'.op = "append" =>
            IF ret'.result = VAX_OK
            THEN chain'.counter = chain.counter + 1
            ELSE chain'.counter = chain.counter]_vars

\* get_counter answers 2 on a never-synced chain with two appended actions
C9_Witness ==
    /\ ret.op = "get_counter"
    /\ ret.value = 2
    /\ syncs = 0
    /\ Len(log) = 2

\* C10: append at the counter limit. With Counter = 65535 append fails with
\* CounterOverflow, for every payload, and leaves Counter and CurrentAnchor
\* as they were.
C10_AppendOverflow ==
    [][(ret'.op = "append" /\ chain.counter = UINT16_MAX) =>
         /\ ret'.result = VAX_ERR_COUNTER_OVERFLOW
         /\ chain' = chain]_vars

\* the limit was reached by an append (from 65534) and the next one refused
C10_Witness ==
    /\ ret.op = "append"
    /\ ret.result = VAX_ERR_COUNTER_OVERFLOW
    /\ chain.counter = UINT16_MAX
    /\ Len(log) >= 1
    /\ log[Len(log)].counter = UINT16_MAX
    /\ chain.prev_sai = log[Len(log)].sai

(***************************************************************************)
(* The derivations as the design states them (sections 4.1 - 4.3)          *)
(***************************************************************************)
\* genesis(actor_id, salt) = Hash("VAX-GENESIS" || actor_id || salt)
SpecGenesis(actor_id, salt) == SHA256(<<"VAX-GENESIS", actor_id, salt>>)

\* derive_nonce(secret, counter) = KeyedHash(secret, "VAX-GI" || big_endian_u16(counter))
SpecNonce(secret, counter) ==
    HMAC_SHA256(secret, <<86, 65, 88, 45, 71, 73, counter \div 256, counter % 256>>)

\* next_anchor(prev, payload, nonce) = Hash("VAX-SAI" || prev || Hash(payload) || nonce)
SpecNextAnchor(prev, payload, nonce) ==
    SHA256(<<"VAX-SAI", prev, SHA256(payload), nonce>>)

\* SAI_0 = genesis, SAI_n = next_anchor(SAI_{n-1}, payload_n, derive_nonce(secret, n)),
\* payload_n the payload of the n-th action appended to this chain
RECURSIVE SAI(_)
SAI(n) ==
    IF n = 0 THEN genesis
    ELSE SpecNextAnchor(SAI(n - 1), log[n].sae, SpecNonce(chain.k_chain, n))

AnchorIsSaiOfCounter ==
    /\ genesis \in {SpecGenesis(chain.actor_id, s) : s \in Salts}
    /\ chain.counter \in 0..Len(log)
    /\ chain.prev_sai = SAI(chain.counter)

\* C11 as stated: in every reachable chain state, after new and any sequence
\* of append and sync calls, CurrentAnchor equals SAI_Counter.
C11_AnchorCounterAnySequence == chain # NoChain => AnchorIsSaiOfCounter

\* C11, amended: in every reachable state of a chain that was never synced
\* (after new and any sequence of appends, failed ones included),
\* CurrentAnchor equals SAI_Counter.
C11_AnchorCounterNoSync == (chain # NoChain /\ syncs = 0) => AnchorIsSaiOfCounter

\* the anchor read back after two appends is SAI_2
C11_Witness ==
    /\ syncs = 0
    /\ chain.counter = 2
    /\ ret.op = "get_prev_sai"
    /\ ret.value = SAI(2)
    /\ SAI(2) # SAI(1)

\* C13: sync always sets Counter and CurrentAnchor to exactly the supplied
\* values, whatever the prior state (a counter lower than the current one
\* included), and leaves ActorId and ChainSecret unchanged; an append that
\* follows it and succeeds derives its nonce for counter + 1 and chains from
\* the supplied anchor.
C13_SyncFrame ==
    [][/\ \A c \in SyncCounters, a \in SyncAnchors :
             ChainSync(c, a) =>
                chain' = [actor_id |-> chain.actor_id, k_chain |-> chain.k_chain,
                          counter |-> c, prev_sai |-> a]
       /\ (ret.op = "sync" /\ ret'.op = "append" /\ ret'.result = VAX_OK) =>
             /\ chain'.counter = chain.counter + 1
             /\ ret'.value = SpecNextAnchor(chain.prev_sai, log'[Len(log')].sae,
                                            SpecNonce(chain.k_chain, chain.counter + 1))
             /\ chain'.prev_sai = ret'.value
             /\ log'[Len(log')].counter = chain.counter + 1
             /\ log'[Len(log')].prev_sai = chain.prev_sai]_vars

\* an append succeeded right after a sync that lowered the counter to 0 and
\* installed the foreign anchor RawA
C13_Witness ==
    /\ syncs = 1
    /\ ret.op = "append"
    /\ ret.result = VAX_OK
    /\ Len(log) >= 2
    /\ log[Len(log)].counter = 1
    /\ log[Len(log)].prev_sai = RawA
    /\ chain.counter = 1
    /\ chain.prev_sai = SpecNextAnchor(RawA, log[Len(log)].sae, SpecNonce(chain.k_chain, 1))

(***************************************************************************)
(* Submissions derived from a verified one                                 *)
(***************************************************************************)
\* C14 as stated: a verified submission whose payload is replaced by any
\* different payload (counter, previous anchor, secret and claimed anchor
\* kept) fails with AnchorMismatch.
C14_TamperAnchorMismatch ==
    (vfrom.kind = "tamper" /\ Verified) => vres = VAX_ERR_SAI_MISMATCH

\* C14, amended: such a submission never verifies; it fails with
\* AnchorMismatch when the replacing payload is canonical and with
\* InvalidCanonicalization when it is not.
C14_TamperDetected ==
    (vfrom.kind = "tamper" /\ Verified) =>
        /\ vin = [vfrom.from EXCEPT !.sae = vin.sae]
        /\ vin.sae # vfrom.from.sae
        /\ vres = IF vax_is_canonical(vin.sae) THEN VAX_ERR_SAI_MISMATCH
                  ELSE VAX_ERR_INVALID_CANONICALIZATION

\* both outcomes occur: a canonical replacement and a non-canonical one
C14_Witness ==
    /\ vfrom.kind = "tamper"
    /\ vfrom.from.sae = <<"a">>
    /\ vin.sae = <<"a", "a">>
    /\ vres = VAX_ERR_SAI_MISMATCH

\* C18: an anchor that verifies Ok at position n is rejected with
\* AnchorMismatch when presented as position m # n with the same secret,
\* previous anchor and payload against the expected cursor (m - 1, same
\* previous anchor).
C18_CrossSlotBinding ==
    (vfrom.kind = "reslot" /\ Verified) =>
        /\ vin.counter # vfrom.from.counter
        /\ vin.expected_counter = vin.counter - 1
        /\ vin.expected_prev_sai = vfrom.from.expected_prev_sai
        /\ vin.sai = vfrom.from.sai
        /\ vres = VAX_ERR_SAI_MISMATCH

\* the anchor of position 65535 presented as position 255: the two counters
\* share their low byte
C18_Witness ==
    /\ vfrom.kind = "reslot"
    /\ vfrom.from.counter = UINT16_MAX
    /\ vin.counter = 255
    /\ vin.sai = ClientSai(vin.k_chain, UINT16_MAX, vin.prev_sai, vin.sae)
    /\ vres = VAX_ERR_SAI_MISMATCH

\* C19: expected_counter + 1 is compared without 16-bit wrap: with
\* expected_counter = 65535 no submitted counter is accepted, and counter 0
\* is accepted for no expected_counter; both are answered InvalidCounter.
C19_NoWrapAround ==
    (Verified /\ (vin.expected_counter = UINT16_MAX \/ vin.counter = 0)) =>
        vres = VAX_ERR_INVALID_COUNTER

\* counter 0 after 65535 with everything else in order, the anchor the
\* honest one for counter 0
C19_Witness ==
    /\ vin.expected_counter = UINT16_MAX
    /\ vin.counter = 0
    /\ vin.k_chain # NULL
    /\ ContinuityPasses
    /\ vax_is_canonical(vin.sae)
    /\ vin.sai = Recomputed
    /\ vres = VAX_ERR_INVALID_COUNTER

(***************************************************************************)
(* Properties of the derivation functions (checked under SpecDerive)       *)
(***************************************************************************)
GiCalls == {i \in DOMAIN gcalls : gcalls[i].fn = "gi"}

\* the secret argument of a call is missing or a full VAX_K_CHAIN_SIZE buffer
FullKey(i) == gcalls[i].args[1] = NULL \/ Len(gcalls[i].args[1]) = VAX_K_CHAIN_SIZE

\* the big-endian uint16 in the last two bytes of a gi message
DecodeCounter(msg) == msg[7] * 256 + msg[8]

C16_BigEndian ==
    /\ gcalls = <<>> =>
          \A c \in 0..UINT16_MAX :
             /\ Len(gi_message(c)) = 8
             /\ SubSeq(gi_message(c), 1, 6) = <<86, 65, 88, 45, 71, 73>>
             /\ gi_message(c)[7] = c \div 256
             /\ DecodeCounter(gi_message(c)) = c
    /\ \A i \in GiCalls :
          (gcalls[i].result = VAX_OK /\ FullKey(i)) =>
             gcalls[i].out = SpecNonce(gcalls[i].args[1], gcalls[i].args[2])
    /\ \A i, j \in GiCalls :
          (/\ gcalls[i].result = VAX_OK /\ gcalls[j].result = VAX_OK
           /\ gcalls[i].args[1] = gcalls[j].args[1]
           /\ FullKey(i)
           /\ gcalls[i].args[2] # gcalls[j].args[2]) =>
             gcalls[i].out # gcalls[j].out

\* the nonces of counters 1 and 256 for one secret
C16_Witness ==
    /\ Len(gcalls) = 2
    /\ gcalls[1].fn = "gi" /\ gcalls[2].fn = "gi"
    /\ gcalls[1].args[1] = gcalls[2].args[1]
    /\ gcalls[1].args[2] = 1 /\ gcalls[2].args[2] = 256
    /\ gcalls[1].result = VAX_OK /\ gcalls[2].result = VAX_OK
    /\ gcalls[1].out # gcalls[2].out

\* C17: vax_compute_gi returns InvalidInput when the secret is NULL or not
\* 32 bytes or when the output buffer is NULL, and Ok for every counter
\* otherwise.
C17_InputValidation ==
    \A i \in GiCalls :
       gcalls[i].result =
          IF \/ gcalls[i].args[1] = NULL
             \/ Len(gcalls[i].args[1]) # VAX_K_CHAIN_SIZE
             \/ gcalls[i].args[3] = NULL
          THEN VAX_ERR_INVALID_INPUT
          ELSE VAX_OK

(***************************************************************************)
(* Properties of the relying party (checked under SpecRP)                  *)
(***************************************************************************)
\* C20: in a relying party that commits (counter, anchor) after each Ok, a
\* submission accepted once is answered InvalidCounter whenever it is
\* presented again, and the accepted counters are the successors of the
\* starting counter in order (1, 2, 3, ... from 0), none skipped or repeated.
C20_ReplayRejected ==
    /\ rlast.replay => rlast.result = VAX_ERR_INVALID_COUNTER
    /\ \A i \in DOMAIN accepted : accepted[i].counter = srv.start + i
    /\ srv.expected_counter = srv.start + Len(accepted)
    /\ rlast.result = VAX_OK => accepted[Len(accepted)].sai = rlast.sai

\* the first of two accepted submissions was presented again and refused
C20_Witness ==
    /\ srv.start = 0
    /\ Len(accepted) = 2
    /\ rlast.replay
    /\ rlast.counter = 1
    /\ rlast.sai = accepted[1].sai
    /\ rlast.result = VAX_ERR_INVALID_COUNTER

====
